---- MODULE Spec2Model ----
(***************************************************************************)
(* A model of the PIO programs of pio_experiments (neopixel.py and         *)
(* parallel.py): the state machine that runs an assembled PIO program one  *)
(* clock cycle at a time, the TX FIFO between the Python code and the      *)
(* state machine, and the Python loops that feed the FIFO.                 *)
(*                                                                         *)
(* A 32-bit Word is kept as its four bytes, most significant first         *)
(* (<<G, R, B, pad>> for a NeoPixel colour), because an unsigned 32-bit    *)
(* value does not fit TLC's integers.  The output shift register is the    *)
(* sequence of its 32 bits, bit 31 first.                                  *)
(***************************************************************************)
EXTENDS Integers, Sequences, FiniteSets, TLC

(* ------------------------------ bounds -------------------------------- *)

\* Words the free producer of Spec / SpecPar enqueues in one run.
MaxWords == 4
\* Cycles kept in the sliding window of past cycles.
HistLen == 7
\* Frames a frame generator is followed for.
MaxFrames == 2
\* Cycles a sleep of the Python code is counted for in a run that does not
\* time its sleeps: there the Python code may resume at any cycle after them.
MaxSleep == 8
\* How far beyond 0..44 the offsets passed to color_wheel go, either way.
OffsetMargin == 3
\* The times argument sliding_rainbow is followed to its end with.
MaxTimes == 2

(* ------------------------- program constants -------------------------- *)

\* Width of the output shift register and of a FIFO word.
WordBitCount == 32
\* fifo_join=PIO.JOIN_TX: the 4-entry RX FIFO is joined to the 4-entry TX FIFO.
FifoDepth == 8
\* Pin(12): the NeoPixel data pin, out_base and set_base alike.
NeoPin == 12
\* Pin(2): the first of the 8 data pins of the parallel bus.
ParOutBase == 2
\* Pin(1): the clock (side-set) pin of the parallel bus.
ParClockPin == 1
\* A program without the pin group / an instruction without side-set.
None == -1
\* NUM_LEDS=90
NUM_LEDS == 90
\* StateMachine(0, neopixel_write, freq=4_800_000): the clock, in kHz.
NeoFreqKHz == 4800
\* StateMachine(0, parallel, freq=2_000): the clock, in kHz.
ParFreqKHz == 2
\* "the output must remain low (50us seems to work)": the latch gap, in us.
LatchUs == 50
\* for i in range(256): the values parallel.py puts.
ByteValues == 256
\* "Convert an offset (0-44, inclusive)": the offsets of the colour wheel.
WheelSize == 45

(* ------------------------------ words --------------------------------- *)

\* Bit k (0 = least significant) of the natural number n.
Bit(n, k) == (n \div (2 ^ k)) % 2

\* The 32-bit word with the given bytes: b3 << 24 | b2 << 16 | b1 << 8 | b0.
Word(b3, b2, b1, b0) == <<b3, b2, b1, b0>>

\* Bit k (31 = most significant) of a Word.
WordBit(w, k) == Bit(w[4 - (k \div 8)], k % 8)

\* A Word as the shift register holds it: 32 bits, bit 31 first.
WordBits(w) == [i \in 1..WordBitCount |-> WordBit(w, WordBitCount - i)]

(* ----------------------------- programs ------------------------------- *)

Ins(op, arg, side, dl) == [op |-> op, arg |-> arg, side |-> side, delay |-> dl]

\* neopixel_write without its last instruction, set(pins, 0).
neopixel_write_NoTrailLow ==
    << Ins("pull", 1, None, 0),
       Ins("set",  1, None, 1),
       Ins("out",  1, None, 1) >>

\* neopixel_write without the delay on out(pins, 1).
neopixel_write_NoDataDelay ==
    << Ins("pull", 1, None, 0),
       Ins("set",  1, None, 1),
       Ins("out",  1, None, 0),
       Ins("set",  0, None, 0) >>

\* neopixel.py: pull(ifempty); set(pins, 1)[1]; out(pins, 1)[1]; set(pins, 0)
neopixel_write ==
    << Ins("pull", 1, None, 0),
       Ins("set",  1, None, 1),
       Ins("out",  1, None, 1),
       Ins("set",  0, None, 0) >>

\* parallel with the clock driven high by its pull.
parallel_PullHigh ==
    << Ins("pull", 1, 1, 0),
       Ins("out",  8, 1, 0) >>

\* parallel_delayed_clock with the clock driven high by its out already.
parallel_delayed_clock_ClockOnOut ==
    << Ins("pull", 1, 0, 0),
       Ins("out",  8, 1, 0),
       Ins("nop",  0, 1, 1) >>

\* parallel with a delay cycle on its out.
parallel_OutHold ==
    << Ins("pull", 1, 0, 0),
       Ins("out",  8, 1, 1) >>

\* parallel_delayed_clock without the delay on its nop.
parallel_delayed_clock_NoHold ==
    << Ins("pull", 1, 0, 0),
       Ins("out",  8, 0, 0),
       Ins("nop",  0, 1, 0) >>

\* parallel_delayed_clock with two delay cycles on its nop.
parallel_delayed_clock_LongHold ==
    << Ins("pull", 1, 0, 0),
       Ins("out",  8, 0, 0),
       Ins("nop",  0, 1, 2) >>

\* parallel.py: pull(ifempty).side(0); out(pins, 8).side(1)
parallel ==
    << Ins("pull", 1, 0, 0),
       Ins("out",  8, 1, 0) >>

\* parallel.py: pull(ifempty).side(0); out(pins, 8).side(0); nop().side(1)[1]
parallel_delayed_clock ==
    << Ins("pull", 1, 0, 0),
       Ins("out",  8, 0, 0),
       Ins("nop",  0, 1, 1) >>

\* NeoConfig with the default out_shiftdir, SHIFT_RIGHT.
NeoConfig_ShiftRight ==
    [code |-> neopixel_write, autopull |-> TRUE, thresh |-> 24, left |-> FALSE,
     outBase |-> NeoPin, outCount |-> 1, setBase |-> NeoPin, sideBase |-> None]

\* The @asm_pio arguments and the StateMachine pins of each program.
NeoConfig ==
    [code |-> neopixel_write, autopull |-> TRUE, thresh |-> 24, left |-> TRUE,
     outBase |-> NeoPin, outCount |-> 1, setBase |-> NeoPin, sideBase |-> None]

\* ParConfig with out_shiftdir=PIO.SHIFT_LEFT.
ParConfig_ShiftLeft ==
    [code |-> parallel, autopull |-> TRUE, thresh |-> 8, left |-> TRUE,
     outBase |-> ParOutBase, outCount |-> 8, setBase |-> None,
     sideBase |-> ParClockPin]

ParConfig ==
    [code |-> parallel, autopull |-> TRUE, thresh |-> 8, left |-> FALSE,
     outBase |-> ParOutBase, outCount |-> 8, setBase |-> None,
     sideBase |-> ParClockPin]

ParDelayedConfig ==
    [code |-> parallel_delayed_clock, autopull |-> TRUE, thresh |-> 8,
     left |-> FALSE, outBase |-> ParOutBase, outCount |-> 8, setBase |-> None,
     sideBase |-> ParClockPin]

Config(p) ==
    CASE p = "neopixel_write" -> NeoConfig
      [] p = "parallel" -> ParConfig
      [] p = "parallel_delayed_clock" -> ParDelayedConfig

\* The GPIOs a program drives.
Pins(c) ==
    {c.outBase + k : k \in 0..(c.outCount - 1)}
      \cup (IF c.setBase = None THEN {} ELSE {c.setBase})
      \cup (IF c.sideBase = None THEN {} ELSE {c.sideBase})

\* out_init / set_init / sideset_init = PIO.OUT_LOW: every pin starts low.
InitPins(c) == [p \in Pins(c) |-> 0]

(* -------------------------- shift register ---------------------------- *)

\* The n bits an OUT takes from the register, as bit k (0 = least
\* significant) of the value written to the destination: with SHIFT_LEFT the
\* top n bits of the register, with SHIFT_RIGHT the bottom n bits.
OutData(reg, n, left) ==
    [k \in 0..(n - 1) |-> IF left THEN reg[n - k] ELSE reg[WordBitCount - k]]

\* The register after n bits were shifted out, zeros shifted in.
ShiftOut(reg, n, left) ==
    [i \in 1..WordBitCount |->
        IF left
        THEN (IF i + n <= WordBitCount THEN reg[i + n] ELSE 0)
        ELSE (IF i - n >= 1 THEN reg[i - n] ELSE 0)]

\* out(pins, n): out pin out_base + k takes bit k of the data; the pins of
\* the group beyond the n bits take 0.
OutPins(g, c, data, n) ==
    [p \in DOMAIN g |->
        IF p >= c.outBase /\ p < c.outBase + c.outCount
        THEN (IF p - c.outBase < n THEN data[p - c.outBase] ELSE 0)
        ELSE g[p]]

\* set(pins, v): the single set pin takes bit 0 of v.
SetPins(g, c, v) ==
    [p \in DOMAIN g |-> IF p = c.setBase THEN v % 2 ELSE g[p]]

\* .side(v): the side-set pin takes v as the instruction starts, stalled or not.
SidePins(g, c, v) ==
    [p \in DOMAIN g |-> IF v # None /\ p = c.sideBase THEN v ELSE g[p]]

EmptyReg == [i \in 1..WordBitCount |-> 0]

(* ------------------------------ state --------------------------------- *)

VARIABLES
    prog,       \* the PIO program the state machine runs
    active,     \* writer.active(): whether the state machine is enabled
    pc,         \* index (1-based) of the instruction to execute next
    delay,      \* delay cycles left of the instruction executed last
    osr,        \* the output shift register
    osrCount,   \* the output shift counter: bits shifted out of osr
    fifo,       \* the TX FIFO, oldest Word first
    gpio,       \* level of every pin the program drives
    stalled,    \* whether the last cycle stalled
    lastOp,     \* index of the instruction that occupied the last cycle (0: none)
    hist,       \* (Spec, SpecPar) the last HistLen cycles, newest last
    nEnq,       \* Words enqueued so far
    nPulled,    \* Words moved from the FIFO into osr so far
    lastWord,   \* the Word pulled last
    enq,        \* (Spec, SpecPar) every Word enqueued, in order
    pulled,     \* (Spec, SpecPar) every Word pulled, in order
    driven,     \* (Spec, SpecPar) the data of every OUT executed, in order
    waiting,    \* whether writer.put found the FIFO full and is retrying
    prod,       \* the Python code's position and locals
    sleep,      \* cycles left of the Python code's current sleep
    lowRun      \* (GapClock) cycles the first out pin has been low in a row

smVars == <<prog, active, pc, delay, osr, osrCount, fifo, gpio>>
obsVars == <<stalled, lastOp, nPulled, lastWord>>
logVars == <<hist, enq, pulled, driven>>
vars == <<prog, active, pc, delay, osr, osrCount, fifo, gpio, stalled, lastOp,
          hist, nEnq, nPulled, lastWord, enq, pulled, driven, waiting, prod,
          sleep, lowRun>>

Cfg == Config(prog)

(* ------------------------- one machine cycle -------------------------- *)

\* Autopull refills the register from the FIFO once the shift counter has
\* reached pull_thresh and the FIFO holds a Word.
Refills(c, cnt, q) == c.autopull /\ cnt >= c.thresh /\ q # <<>>

NextPc(c, i) == IF i = Len(c.code) THEN 1 ELSE i + 1

Min(a, b) == IF a < b THEN a ELSE b

\* The effect of one clock cycle on the enabled state machine: the register,
\* its counter, the FIFO and the pins after the cycle, whether the cycle
\* stalled, the Words pulled (none or one) and the data of an OUT (none or
\* one).  A delay cycle and every instruction but OUT and PULL let autopull
\* refill an exhausted register.
Exec(c, i, dl, reg, cnt, q, g) ==
    LET ins == c.code[i]
        idle == [reg |-> reg, cnt |-> cnt, q |-> q, g |-> g, stall |-> FALSE,
                 took |-> <<>>, data |-> <<>>]
        refill(r) == IF Refills(c, r.cnt, r.q)
                     THEN [r EXCEPT !.reg = WordBits(Head(r.q)), !.cnt = 0,
                                    !.q = Tail(r.q), !.took = <<Head(r.q)>>]
                     ELSE r
        sided == [idle EXCEPT !.g = SidePins(g, c, ins.side)]
    IN  IF dl > 0 THEN refill(idle)
        ELSE CASE ins.op = "pull" ->
                    \* pull(ifempty) with autopull: nothing to do unless the
                    \* shift counter has reached the threshold; then take a
                    \* Word, or stall while the FIFO is empty.
                    IF ins.arg = 1 /\ cnt < c.thresh THEN sided
                    ELSE IF q # <<>>
                         THEN [sided EXCEPT !.reg = WordBits(Head(q)), !.cnt = 0,
                                            !.q = Tail(q), !.took = <<Head(q)>>]
                         ELSE [sided EXCEPT !.stall = TRUE]
               [] ins.op = "out" ->
                    IF c.autopull /\ cnt >= c.thresh
                    THEN [refill(sided) EXCEPT !.stall = TRUE]
                    ELSE LET d == OutData(reg, ins.arg, c.left)
                         IN  refill([sided EXCEPT
                                 !.reg = ShiftOut(reg, ins.arg, c.left),
                                 !.cnt = Min(WordBitCount, cnt + ins.arg),
                                 !.g = OutPins(sided.g, c, d, ins.arg),
                                 !.data = <<d>>])
               [] ins.op = "set" ->
                    refill([sided EXCEPT !.g = SetPins(sided.g, c, ins.arg)])
               [] ins.op = "nop" -> refill(sided)

\* What the sliding window keeps of a cycle.
Seen(op, first, stall, g) == [op |-> op, first |-> first, stall |-> stall, g |-> g]

Push(h, e) == IF Len(h) < HistLen THEN Append(h, e) ELSE Append(Tail(h), e)

\* One clock cycle of the state machine (nothing happens while it is disabled).
Cycle ==
    IF active
    THEN \E r \in {Exec(Cfg, pc, delay, osr, osrCount, fifo, gpio)} :
         LET first == delay = 0
             op == IF first THEN pc ELSE lastOp
         IN  /\ osr' = r.reg
             /\ osrCount' = r.cnt
             /\ fifo' = r.q
             /\ gpio' = r.g
             /\ stalled' = r.stall
             /\ lastOp' = op
             /\ pc' = IF first /\ ~r.stall THEN NextPc(Cfg, pc) ELSE pc
             /\ delay' = IF first THEN (IF r.stall THEN 0 ELSE Cfg.code[pc].delay)
                         ELSE delay - 1
             /\ nPulled' = nPulled + Len(r.took)
             /\ lastWord' = IF r.took = <<>> THEN lastWord ELSE r.took[1]
             /\ UNCHANGED <<prog, active>>
    ELSE UNCHANGED <<smVars, obsVars>>

\* What Cycle pulls, drives and shows, for the logs.
CycleSeen ==
    LET r == Exec(Cfg, pc, delay, osr, osrCount, fifo, gpio)
    IN  Seen(IF delay = 0 THEN pc ELSE lastOp, delay = 0, r.stall, r.g)
CycleTook == IF active THEN Exec(Cfg, pc, delay, osr, osrCount, fifo, gpio).took ELSE <<>>
CycleData == IF active THEN Exec(Cfg, pc, delay, osr, osrCount, fifo, gpio).data ELSE <<>>

\* A clock cycle under the free producer: the logs record it.
Tick ==
    /\ Cycle
    /\ active
    /\ hist' = Push(hist, CycleSeen)
    /\ pulled' = pulled \o CycleTook
    /\ driven' = driven \o CycleData
    /\ UNCHANGED <<nEnq, enq, waiting, prod, sleep, lowRun>>

(* ----------------------------- writer.put ----------------------------- *)

\* writer.put(w) finds the FIFO full: it retries until there is room.
PutFull ==
    /\ Len(fifo) = FifoDepth
    /\ ~waiting
    /\ waiting' = TRUE

\* writer.put(w) that overwrites the newest Word of a full FIFO.
PutWord_Overwrite(w) ==
    /\ fifo' = IF Len(fifo) < FifoDepth THEN Append(fifo, w)
               ELSE SubSeq(fifo, 1, FifoDepth - 1) \o <<w>>
    /\ nEnq' = nEnq + 1
    /\ waiting' = FALSE

\* writer.put(w) that puts w at the head of the FIFO.
PutWord_AtHead(w) ==
    /\ Len(fifo) < FifoDepth
    /\ fifo' = <<w>> \o fifo
    /\ nEnq' = nEnq + 1
    /\ waiting' = FALSE

\* writer.put(w) finds room: w goes to the tail of the FIFO.
PutWord(w) ==
    /\ Len(fifo) < FifoDepth
    /\ fifo' = Append(fifo, w)
    /\ nEnq' = nEnq + 1
    /\ waiting' = FALSE

(* --------------------------- free producer ---------------------------- *)

\* The Words the free producer chooses from: colours the module uses (off,
\* 0x003f0000, 0x3f3f3f00) and one with every byte's end bits set.
NeoWords == {Word(0, 0, 0, 0), Word(0, 63, 0, 0), Word(129, 0, 1, 255)}

\* The Words the free producer of the parallel bus chooses from: bytes the
\* module puts (0, 0b10110010, 255) and a Word with bits above its low byte.
ParWords == {Word(0, 0, 0, 0), Word(0, 0, 0, 178), Word(0, 0, 0, 255), Word(255, 0, 128, 77)}

\* Python code that calls writer.put(w) for any w at any time.
Put(w) ==
    /\ nEnq < MaxWords
    /\ PutWord(w)
    /\ enq' = Append(enq, w)
    /\ UNCHANGED <<prog, active, pc, delay, osr, osrCount, gpio, obsVars,
                   hist, pulled, driven, prod, sleep, lowRun>>

InitMachine(p) ==
    /\ prog = p
    /\ active = TRUE            \* writer.active(1)
    /\ pc = 1
    /\ delay = 0
    /\ osr = EmptyReg
    /\ osrCount = WordBitCount  \* a restarted machine's register is empty
    /\ fifo = <<>>
    /\ gpio = InitPins(Config(p))
    /\ stalled = FALSE
    /\ lastOp = 0
    /\ hist = <<>>
    /\ nEnq = 0
    /\ nPulled = 0
    /\ lastWord = Word(0, 0, 0, 0)
    /\ enq = <<>>
    /\ pulled = <<>>
    /\ driven = <<>>
    /\ waiting = FALSE
    /\ sleep = 0
    /\ lowRun = 0

Init ==
    /\ InitMachine("neopixel_write")
    /\ prod = [pc |-> "free", timed |-> TRUE]

Next ==
    \/ Tick
    \/ \E w \in NeoWords : Put(w)

Spec == Init /\ [][Next]_vars

(* ------------------- the pulse encoder (neopixel_write) ---------------- *)

\* Level of the NeoPixel data pin.
Level == gpio[NeoPin]

\* The phases of a bit: the instruction that occupied the last cycle.
AtWait == lastOp = 1
AtLeadHigh == lastOp = 2
AtData == lastOp = 3
AtTrailLow == lastOp = 4

\* The sequencer is blocked at its Wait step: pull(ifempty) is next, the
\* shift register is exhausted and the Channel is empty.
Blocked == pc = 1 /\ delay = 0 /\ osrCount >= Cfg.thresh /\ fifo = <<>>

\* Payload bits of one Word (pull_thresh = 24).
PayloadBits == NeoConfig.thresh

\* The payload bit the i-th OUT of a run has to drive, given the Words pulled.
PayloadBit(ws, i) ==
    WordBit(ws[((i - 1) \div PayloadBits) + 1],
            (WordBitCount - 1) - ((i - 1) % PayloadBits))

\* C1: the Words the Encoder has pulled are a prefix of the Words the
\* Producer has enqueued, and the rest of the enqueued Words is exactly the
\* content of the Channel, in order: nothing is dropped, duplicated,
\* reordered or coalesced.
C1_PulledInEnqueueOrder ==
    /\ Len(pulled) <= Len(enq)
    /\ \A i \in 1..Len(pulled) : pulled[i] = enq[i]
    /\ enq = pulled \o fifo
    /\ nPulled = Len(pulled)
    /\ nEnq = Len(enq)

C1_Witness ==
    /\ Len(pulled) = 3
    /\ pulled[1] # pulled[2]
    /\ pulled[2] # pulled[3]
    /\ Len(fifo) = 1

\* C2: whenever the sequencer is blocked at Wait the output is low, the
\* first time included; the output is high only in the Lead-high or Data
\* phase of a bit of a Word that was pulled from the Channel.
C2_IdleLow ==
    /\ Blocked => Level = 0
    /\ (stalled /\ AtWait) => Level = 0
    /\ Level = 1 =>
          \/ AtLeadHigh /\ osrCount < PayloadBits
                        /\ Len(driven) < PayloadBits * Len(pulled)
          \/ AtData /\ driven[Len(driven)][0] = 1
                    /\ Len(driven) <= PayloadBits * Len(pulled)

C2_Witness ==
    /\ Blocked
    /\ stalled
    /\ Len(pulled) = 2
    /\ WordBit(pulled[2], 8) = 1

\* The levels and instructions of the last n cycles of the window.
LastLevels(n) == [i \in 1..n |-> hist[Len(hist) - n + i].g[NeoPin]]
LastOps(n) == [i \in 1..n |-> hist[Len(hist) - n + i].op]

\* A Wait step that did not stall has just ended a bit: the cycle before it
\* was the bit's set(pins, 0).
BitEnded ==
    /\ AtWait
    /\ ~stalled
    /\ Len(hist) >= 2
    /\ hist[Len(hist) - 1].op = 4

\* C3: a bit whose Wait step does not stall occupies exactly 6 cycles: high
\* for 2 (Lead-high), the payload bit for 2 (Data), low for 2 (Trail-low and
\* the Wait step); the sequencer stalls only between Words, with the shift
\* register exhausted, so the 24 bits of a Word follow back to back.
C3_SixCyclesPerBit ==
    /\ BitEnded =>
          /\ Len(hist) >= 6
          /\ LastOps(6) = <<2, 2, 3, 3, 4, 1>>
          /\ LET b == driven[Len(driven)][0]
             IN  LastLevels(6) = <<1, 1, b, b, 0, 0>>
    /\ stalled => /\ AtWait
                  /\ osrCount >= PayloadBits
                  /\ Len(driven) % PayloadBits = 0
    /\ (AtWait /\ ~stalled /\ Len(driven) % PayloadBits # 0) => BitEnded

C3_Witness ==
    /\ BitEnded
    /\ Len(driven) = 32
    /\ driven[32][0] = 1
    /\ driven[31][0] = 0

\* C4: the data driven by the successive OUTs are bits 31, 30, ..., 8 of the
\* first Word pulled, then bits 31..8 of the second, and so on; bits 7..0 of
\* a Word are never driven, and in the Data phase the pin carries the bit.
C4_MsbFirstUpper24 ==
    /\ \A i \in 1..Len(driven) :
          /\ ((i - 1) \div PayloadBits) + 1 <= Len(pulled)
          /\ driven[i][0] = PayloadBit(pulled, i)
    /\ AtData => Level = driven[Len(driven)][0]
    /\ Len(pulled) <= (Len(driven) \div PayloadBits) + 1

C4_Witness ==
    /\ Len(driven) = 2 * PayloadBits
    /\ pulled[1] = Word(129, 0, 1, 255)
    /\ pulled[2] = Word(0, 63, 0, 0)
    /\ Len(pulled) = 3

(* ------------------------- time and the Python code -------------------- *)

\* Clock cycles of the state machine in a sleep of the given length.
UsToCycles(us, khz) == (us * khz) \div 1000
MsToCycles(ms, khz) == ms * khz

\* The cycles a sleep of n cycles is counted for: all of them in a run that
\* times its sleeps, at most MaxSleep otherwise (the sleep ends no sooner).
SleepCycles(n) == IF prod.timed THEN n ELSE Min(n, MaxSleep)

\* The Python code entered at p, in a run that times its sleeps or not.
Run(p, timed) == [timed |-> timed] @@ p

\* Cycles of the latch gap at 4.8 MHz.
LatchCycles == UsToCycles(LatchUs, NeoFreqKHz)

\* A clock cycle while scripted Python code runs: the state machine steps
\* and a sleep of the Python code comes one cycle nearer its end.
ClockStep ==
    /\ Cycle
    /\ sleep' = IF sleep > 0 THEN sleep - 1 ELSE 0
    /\ UNCHANGED <<nEnq, logVars, waiting, prod>>

Clock ==
    /\ ClockStep
    /\ UNCHANGED lowRun

\* A clock cycle that also measures the run of low cycles of the first out
\* pin, counted up to the latch gap.
GapClock ==
    /\ ClockStep
    /\ lowRun' = IF gpio'[Cfg.outBase] = 0 THEN Min(lowRun + 1, LatchCycles) ELSE 0

\* The Python code is at a writer.put.
AtPut == prod.pc = "put"

\* writer.put retries on a full FIFO.
Retry ==
    /\ AtPut
    /\ PutFull
    /\ UNCHANGED <<prog, active, pc, delay, osr, osrCount, fifo, gpio, obsVars,
                   nEnq, logVars, prod, sleep, lowRun>>

\* What a step of the Python code leaves alone besides the FIFO.
PutFrame == UNCHANGED <<prog, active, pc, delay, osr, osrCount, gpio, obsVars,
                        logVars, sleep, lowRun>>
LastPutFrame == UNCHANGED <<prog, active, pc, delay, osr, osrCount, gpio, obsVars,
                            logVars, lowRun>>
CodeFrame == UNCHANGED <<smVars, obsVars, nEnq, logVars, waiting, lowRun>>

Off == Word(0, 0, 0, 0)

\* The Python code's locals as a sleep begins: one more Frame is out; sent
\* counts the Words put since the last sleep began, last keeps the count of
\* the Frame before.
Asleep(p) == [p EXCEPT !.pc = "sleep", !.frames = p.frames + 1,
                       !.last = p.sent, !.sent = 0]

\* Where the Python code goes on after a sleep when its loops have not ended.
\* A run that is followed through all of its Frames goes on regardless.
Resume(p) == IF "whole" \notin DOMAIN p /\ p.frames >= MaxFrames THEN "cut" ELSE "put"

\* The Python code entered at p, followed through all of its Frames.
Whole(p) == [whole |-> TRUE] @@ p

(* ------------------------------ colours -------------------------------- *)

\* The Word of 32 bits (bit 31 first).
BitsWord(b) ==
    [n \in 1..4 |->
        LET o == 8 * (n - 1)
        IN  128 * b[o + 1] + 64 * b[o + 2] + 32 * b[o + 3] + 16 * b[o + 4]
              + 8 * b[o + 5] + 4 * b[o + 6] + 2 * b[o + 7] + b[o + 8]]

\* w << n, kept to 32 bits as writer.put keeps it.
ShiftLeftWord(w, n) == BitsWord(ShiftOut(WordBits(w), n, TRUE))

\* a | b
OrWord(a, b) ==
    BitsWord([i \in 1..WordBitCount |->
                 IF WordBits(a)[i] = 1 \/ WordBits(b)[i] = 1 THEN 1 ELSE 0])

\* Bit j of the Python integer x (two's complement, as << and | see it).
IntBit(x, j) == (x \div (2 ^ j)) % 2

\* green << 24 | red << 16 | blue << 8 for any integers, with the 32 bits
\* writer.put keeps of it.
PackGRB(c) ==
    BitsWord([i \in 1..WordBitCount |->
        LET k == WordBitCount - i
        IN  IF \/ k >= 24 /\ IntBit(c.green, k - 24) = 1
               \/ k >= 16 /\ IntBit(c.red, k - 16) = 1
               \/ k >= 8 /\ IntBit(c.blue, k - 8) = 1
            THEN 1 ELSE 0])

\* color_wheel's channels with the steps divided by 13.
color_channels_Div13(offset, brightness) ==
    IF offset < 15
    THEN LET red == (offset * brightness) \div 13
         IN  [green |-> brightness - red, red |-> red, blue |-> 0]
    ELSE IF offset < 30
    THEN LET blue == ((offset - 15) * brightness) \div 13
         IN  [green |-> 0, red |-> brightness - blue, blue |-> blue]
    ELSE LET green == ((offset - 30) * brightness) \div 13
         IN  [green |-> green, red |-> 0, blue |-> brightness - green]

\* color_wheel(offset, brightness): the channels before they are packed.
color_channels(offset, brightness) ==
    IF offset < 15
    THEN LET red == (offset * brightness) \div 14
         IN  [green |-> brightness - red, red |-> red, blue |-> 0]
    ELSE IF offset < 30
    THEN LET blue == ((offset - 15) * brightness) \div 14
         IN  [green |-> 0, red |-> brightness - blue, blue |-> blue]
    ELSE LET green == ((offset - 30) * brightness) \div 14
         IN  [green |-> green, red |-> 0, blue |-> brightness - green]

\* color_wheel(offset, brightness): it has no path that raises.
color_wheel(offset, brightness) == PackGRB(color_channels(offset, brightness))

\* colors = [color_wheel(i, 63) for i in range(45)]
rainbow == [n \in 1..WheelSize |-> color_wheel(n - 1, 63)]

\* The palette without "colors = colors + colors".
colors_NotRepeated == rainbow

\* colors = colors + colors
colors == rainbow \o rainbow

(* ----------------------------- single_chase ---------------------------- *)

\* The colours back_and_forth_chasers passes to single_chase.
ChaseColors ==
    { Word(0, 63, 0, 0), Word(63, 63, 0, 0), Word(63, 0, 0, 0), Word(63, 0, 63, 0),
      Word(0, 0, 63, 0), Word(0, 63, 63, 0), Word(63, 63, 63, 0) }

\* The calls of single_chase a run of the model draws from: a colour of
\* back_and_forth_chasers forward, another one in reverse.
ChaseCalls == { <<Word(0, 63, 0, 0), FALSE>>, <<Word(63, 63, 63, 0), TRUE>> }

\* on_offsets that ignores reverse.
OnOffset_NeverReversed(k, reverse) == k

\* on_offsets[k]: range(NUM_LEDS), reversed if reverse.
OnOffset(k, reverse) == IF reverse THEN NUM_LEDS - 1 - k ELSE k

\* The state on entry to single_chase(color, reverse).
ChaseEntry(color, reverse) ==
    [gen |-> "single_chase", pc |-> "put", color |-> color, reverse |-> reverse,
     k |-> 0, i |-> 0, frames |-> 0, sent |-> 0, last |-> 0]

\* for i in range(NUM_LEDS): writer.put(color if i == offset else 0)
ChasePut ==
    /\ prod.gen = "single_chase"
    /\ prod.pc = "put"
    /\ PutWord(IF prod.i = OnOffset(prod.k, prod.reverse) THEN prod.color ELSE Off)
    /\ prod' = [prod EXCEPT !.i = prod.i + 1, !.sent = prod.sent + 1,
                            !.pc = IF prod.i + 1 = NUM_LEDS THEN "poll" ELSE "put"]
    /\ PutFrame

\* while writer.tx_fifo() > 0: pass;  then time.sleep_us(50) begins
ChasePoll ==
    /\ prod.gen = "single_chase"
    /\ prod.pc = "poll"
    /\ Len(fifo) = 0
    /\ prod' = Asleep(prod)
    /\ sleep' = SleepCycles(UsToCycles(50, NeoFreqKHz))
    /\ CodeFrame

\* time.sleep_us(50) returns; the next offset, or the end of the loop.
ChaseWake ==
    /\ prod.gen = "single_chase"
    /\ prod.pc = "sleep"
    /\ sleep = 0
    /\ prod' = [prod EXCEPT !.k = prod.k + 1, !.i = 0,
                            !.pc = IF prod.k + 1 = NUM_LEDS THEN "done"
                                   ELSE Resume(prod)]
    /\ UNCHANGED sleep
    /\ CodeFrame

InitChase ==
    /\ InitMachine("neopixel_write")
    /\ \E call \in ChaseCalls : prod = Run(ChaseEntry(call[1], call[2]), TRUE)

\* single_chase with the low time of the pin measured.
NextChaseGap ==
    \/ GapClock
    \/ Retry
    \/ ChasePut
    \/ ChasePoll
    \/ ChaseWake

SpecChaseGap == InitChase /\ [][NextChaseGap]_vars

(* ---------------------------- sliding_rainbow -------------------------- *)

\* The state on entry to sliding_rainbow(palette, times).
SlideEntry(palette, times) ==
    [gen |-> "sliding_rainbow", pc |-> "put", colors |-> palette, times |-> times,
     n |-> 0, j |-> 0, frames |-> 0, sent |-> 0, last |-> 0]

\* colors[2:] + colors[0:2]: a rotation by two places.
RotateLeft_ByTwo(seq) == SubSeq(seq, 3, Len(seq)) \o SubSeq(seq, 1, 2)

\* colors[1:] + colors[0:1]
RotateLeft(seq) == Tail(seq) \o SubSeq(seq, 1, 1)

\* for color in colors: writer.put(color); after the last colour the palette
\* is rotated one place to the left and time.sleep_ms(100) begins.
SlidePut ==
    /\ prod.gen = "sliding_rainbow"
    /\ prod.pc = "put"
    /\ prod.j < Len(prod.colors)
    /\ PutWord(prod.colors[prod.j + 1])
    /\ IF prod.j + 1 = Len(prod.colors)
       THEN /\ prod' = Asleep([prod EXCEPT
                          !.j = prod.j + 1, !.sent = prod.sent + 1,
                          !.colors = RotateLeft(prod.colors)])
            /\ sleep' = SleepCycles(MsToCycles(100, NeoFreqKHz))
       ELSE /\ prod' = [prod EXCEPT !.j = prod.j + 1, !.sent = prod.sent + 1]
            /\ UNCHANGED sleep
    /\ LastPutFrame

\* time.sleep_ms(100) returns; the next n, or the end of the loop.
SlideWake ==
    /\ prod.gen = "sliding_rainbow"
    /\ prod.pc = "sleep"
    /\ sleep = 0
    /\ prod' = [prod EXCEPT !.n = prod.n + 1, !.j = 0,
                            !.pc = IF prod.n + 1 = NUM_LEDS * prod.times THEN "done"
                                   ELSE Resume(prod)]
    /\ UNCHANGED sleep
    /\ CodeFrame

(* --------------------- rainbow_chaser and rainbow_wave ----------------- *)

\* The state on entry to rainbow_chaser(colors, times) or
\* rainbow_wave(colors, times), called with the module's palette: n counts
\* the rounds, up tells the first loop of a round from the reversed one, k
\* counts the Frames of the loop, j the Words of the Frame.
SweepEntry(gen, times) ==
    [gen |-> gen, pc |-> "put", times |-> times,
     n |-> 0, up |-> TRUE, k |-> 0, j |-> 0, frames |-> 0, sent |-> 0, last |-> 0]

\* i of "for i in range(NUM_LEDS)" / "for i in reversed(range(NUM_LEDS))".
SweepLit(p) == IF p.up THEN p.k ELSE NUM_LEDS - 1 - p.k

\* rainbow_chaser: colors[j] if i == j else 0
ChaserWord(p) == IF SweepLit(p) = p.j THEN colors[p.j + 1] ELSE Off

\* rainbow_wave: bright_colors[j] if i == j else dim_colors[j], with
\* bright_colors[j] = colors[j] << 2 | 0x33333300
WaveWord(p) ==
    IF SweepLit(p) = p.j
    THEN OrWord(ShiftLeftWord(colors[p.j + 1], 2), Word(51, 51, 51, 0))
    ELSE colors[p.j + 1]

\* A sleep between Frames no longer than single_chase's.
SweepSleepUs_AsLatch == LatchUs

\* time.sleep_us(500): the sleep between the Frames of a sweep, in us.
SweepSleepUs == 500

\* for j in range(NUM_LEDS): writer.put(w); after the last Word
\* time.sleep_us(500) begins.
SweepPut(gen, w) ==
    /\ prod.gen = gen
    /\ prod.pc = "put"
    /\ PutWord(w)
    /\ IF prod.j + 1 = NUM_LEDS
       THEN /\ prod' = Asleep([prod EXCEPT !.j = prod.j + 1, !.sent = prod.sent + 1])
            /\ sleep' = SleepCycles(UsToCycles(SweepSleepUs, NeoFreqKHz))
       ELSE /\ prod' = [prod EXCEPT !.j = prod.j + 1, !.sent = prod.sent + 1]
            /\ UNCHANGED sleep
    /\ LastPutFrame

\* time.sleep_us(500) returns: the next i, the reversed loop, the next round
\* or the end.
SweepWake(gen) ==
    /\ prod.gen = gen
    /\ prod.pc = "sleep"
    /\ sleep = 0
    /\ prod' =
          IF prod.k + 1 < NUM_LEDS
          THEN [prod EXCEPT !.k = prod.k + 1, !.j = 0, !.pc = Resume(prod)]
          ELSE IF prod.up
          THEN [prod EXCEPT !.up = FALSE, !.k = 0, !.j = 0, !.pc = Resume(prod)]
          ELSE [prod EXCEPT !.n = prod.n + 1, !.up = TRUE, !.k = 0, !.j = 0,
                            !.pc = IF prod.n + 1 = prod.times THEN "done"
                                   ELSE Resume(prod)]
    /\ UNCHANGED sleep
    /\ CodeFrame

ChaserPut == SweepPut("rainbow_chaser", ChaserWord(prod))
ChaserWake == SweepWake("rainbow_chaser")
WavePut == SweepPut("rainbow_wave", WaveWord(prod))
WaveWake == SweepWake("rainbow_wave")

(* ------------------------- turn off all the LEDs ----------------------- *)

\* The state on entry to the module's last loop.
AllOffEntry ==
    [gen |-> "all_off", pc |-> "put", i |-> 0, frames |-> 0, sent |-> 0, last |-> 0]

\* for i in range(NUM_LEDS): writer.put(0)
AllOffPut ==
    /\ prod.gen = "all_off"
    /\ prod.pc = "put"
    /\ PutWord(Off)
    /\ prod' = [prod EXCEPT !.i = prod.i + 1, !.sent = prod.sent + 1,
                            !.pc = IF prod.i + 1 = NUM_LEDS THEN "done" ELSE "put"]
    /\ PutFrame

(* --------------------------- every generator --------------------------- *)

\* Each frame generator of the module, entered on a fresh, idle writer with
\* the module's palette; the last loop of the module likewise.
InitFrames ==
    /\ InitMachine("neopixel_write")
    /\ \E p \in { ChaseEntry(Word(0, 63, 0, 0), TRUE),
                    SlideEntry(colors, 5),
                    SweepEntry("rainbow_chaser", 10),
                    SweepEntry("rainbow_wave", 10),
                    AllOffEntry } :
          prod = Run(p, FALSE)

NextFrames ==
    \/ Clock
    \/ Retry
    \/ ChasePut
    \/ ChasePoll
    \/ ChaseWake
    \/ SlidePut
    \/ SlideWake
    \/ ChaserPut
    \/ ChaserWake
    \/ WavePut
    \/ WaveWake
    \/ AllOffPut

SpecFrames == InitFrames /\ [][NextFrames]_vars

(* ------------------------ rainbow_chaser, fairly ----------------------- *)

\* rainbow_chaser(colors) as the module calls it, on a fresh writer.
InitChaser ==
    /\ InitMachine("neopixel_write")
    /\ prod = Run(SweepEntry("rainbow_chaser", 10), FALSE)

NextChaser ==
    \/ Clock
    \/ Retry
    \/ ChaserPut
    \/ ChaserWake

\* The state machine is enabled and its clock runs on; the Python code runs on.
SpecChaserFair ==
    /\ InitChaser
    /\ [][NextChaser]_vars
    /\ WF_vars(Clock)
    /\ WF_vars(ChaserPut)
    /\ WF_vars(ChaserWake)

\* C6: every frame generator, run with the module's palette, has enqueued
\* exactly NUM_LEDS Words when a sleep between Frames begins, and never
\* more than NUM_LEDS since the last one; the all-off loop ends after
\* exactly NUM_LEDS Words.
C6_FrameLength ==
    /\ prod.sent <= NUM_LEDS
    /\ prod.frames > 0 => prod.last = NUM_LEDS
    /\ prod.pc \in {"poll", "sleep", "done"} =>
          (IF prod.pc = "sleep" THEN prod.last ELSE prod.sent) = NUM_LEDS
    /\ prod.pc = "put" => prod.sent < NUM_LEDS
    /\ nEnq = NUM_LEDS * prod.frames + prod.sent

\* A step of writer.put that finds the Channel full.
PutBlocks == ~waiting /\ waiting'

\* A step that enqueues a Word.
PutCompletes == nEnq' = nEnq + 1

\* C7: the Channel never holds more than 8 Words; a put that finds it full
\* changes nothing in it; a put completes only when there is room and then
\* appends its Word at the tail, whether it had to wait or not; and, the
\* Encoder being clocked, a put that waits eventually completes.
C7_BackPressure ==
    /\ [](Len(fifo) <= FifoDepth)
    /\ [](waiting => AtPut)
    /\ [][PutBlocks => Len(fifo) = FifoDepth /\ UNCHANGED <<fifo, nEnq, nPulled>>]_vars
    /\ [][PutCompletes => /\ Len(fifo) < FifoDepth
                          /\ fifo' = Append(fifo, ChaserWord(prod))
                          /\ ~waiting']_vars
    /\ waiting ~> ~waiting

\* A put of the second frame has found the Channel full and still waits,
\* and the Encoder has just pulled a Word and made room for it.
C7_Witness ==
    /\ waiting
    /\ Len(fifo) = FifoDepth - 1
    /\ prod.frames = 1
    /\ nEnq - nPulled = FifoDepth - 1

C6_Witness ==
    /\ prod.gen = "sliding_rainbow"
    /\ prod.frames = 2
    /\ prod.pc = "sleep"
    /\ nEnq = 2 * NUM_LEDS

\* The pin rises for the first bit of the first Word of a Frame after the
\* first Frame.
FrameRise ==
    /\ Level = 0
    /\ Level' = 1
    /\ osrCount = 0
    /\ nPulled > NUM_LEDS
    /\ nPulled % NUM_LEDS = 1

\* C5: in single_chase the pin has been low for at least 50 us (240 cycles)
\* when it rises for the first bit of the next Frame.  lowRun also counts the
\* low cycles that end the last bit, so the claim asks for no less than this.
C5_LatchGap == [][FrameRise => lowRun >= LatchCycles]_vars

(* -------------------- the parallel bus (parallel.py) ------------------- *)

\* The two programs of parallel.py.
ParProgs == {"parallel", "parallel_delayed_clock"}

\* writer = rp2.StateMachine(0, <program>, ...); writer.active(1), fed by
\* Python code that puts any Word at any time.
InitPar ==
    /\ \E p \in ParProgs : InitMachine(p)
    /\ prod = [pc |-> "free", timed |-> TRUE]

NextPar ==
    \/ Tick
    \/ \E w \in ParWords : Put(w)

SpecPar == InitPar /\ [][NextPar]_vars

\* The data lines: out pin k is GPIO out_base + k.
DataWidth == ParConfig.outCount
Lines == 0..(DataWidth - 1)
DataLines(g) == [k \in Lines |-> g[ParOutBase + k]]

\* Level of the clock line.
Clk == gpio[ParClockPin]

\* Bits 0..7 of a Word, by line.
ByteBits(w) == [k \in Lines |-> WordBit(w, k)]

\* C8: the i-th data update drives bit k of the i-th Word pulled on line k,
\* for both programs; in every state the lines carry the byte of the last
\* update (all low before the first), so they keep it until the next one.
C8_DataLinesCarryWord ==
    /\ Len(driven) <= Len(pulled)
    /\ Len(pulled) <= Len(driven) + 1
    /\ \A i \in 1..Len(driven) : driven[i] = ByteBits(pulled[i])
    /\ DataLines(gpio) = IF driven = <<>> THEN [k \in Lines |-> 0]
                         ELSE ByteBits(pulled[Len(driven)])

C8_Witness ==
    /\ prog = "parallel"
    /\ Len(driven) = 3
    /\ pulled[3] = Word(0, 0, 0, 178)
    /\ pulled[2] = Word(255, 0, 128, 77)
    /\ DataLines(gpio) = [k \in Lines |-> IF k \in {1, 4, 5, 7} THEN 1 ELSE 0]
    /\ stalled

\* C9: whenever the last cycle stalled, it stalled at pull(ifempty) with the
\* shift register exhausted (the Channel had no Word for it) and the clock
\* line is low, as it is before the first cycle; the clock is high only in
\* a cycle of the program's last instruction, after a Word's data update.
C9_ClockLowWhileWaiting ==
    /\ stalled => /\ lastOp = 1
                  /\ pc = 1
                  /\ osrCount >= Cfg.thresh
                  /\ Len(pulled) = Len(driven)
                  /\ Clk = 0
    /\ lastOp = 0 => Clk = 0
    /\ Clk = 1 => /\ ~stalled
                  /\ lastOp = Len(Cfg.code)
                  /\ driven # <<>>

C9_Witness ==
    /\ prog = "parallel"
    /\ stalled
    /\ Len(driven) = 2
    /\ Len(hist) >= 2
    /\ hist[Len(hist) - 1].g[ParClockPin] = 1
    /\ DataLines(gpio)[DataWidth - 1] = 1

\* Cycle i of the window: its clock level, and whether out(pins, 8) executed.
HClk(i) == hist[i].g[ParClockPin]
DataUpdate(i) == hist[i].op = 2 /\ hist[i].first /\ ~hist[i].stall

\* C10: in parallel_delayed_clock the clock is low in the cycle of a data
\* update and in the cycle before it, and high in the cycle after it; a
\* rising edge of the clock comes only one cycle after a data update; the
\* data lines change only in a data update, never into a cycle with the
\* clock high; and the update puts the Word's byte on the lines.
C10_DataBeforeClock ==
    prog = "parallel_delayed_clock" =>
        /\ \A i \in 1..Len(hist) :
              DataUpdate(i) =>
                  /\ HClk(i) = 0
                  /\ (i < Len(hist)) => (HClk(i + 1) = 1)
                  /\ (i > 1) => (HClk(i - 1) = 0)
        /\ \A i \in 1..(Len(hist) - 1) :
              /\ (HClk(i) = 0 /\ HClk(i + 1) = 1) => DataUpdate(i)
              /\ (HClk(i + 1) = 1) =>
                    DataLines(hist[i + 1].g) = DataLines(hist[i].g)
              /\ (DataLines(hist[i + 1].g) # DataLines(hist[i].g)) =>
                    DataUpdate(i + 1)
        /\ (hist # <<>> /\ DataUpdate(Len(hist))) =>
              /\ driven # <<>>
              /\ DataLines(gpio) = ByteBits(pulled[Len(driven)])

C10_Witness ==
    /\ prog = "parallel_delayed_clock"
    /\ Len(hist) = HistLen
    /\ DataUpdate(HistLen - 1)
    /\ HClk(HistLen) = 1
    /\ Len(driven) = 2
    /\ pulled[1] = Word(0, 0, 0, 255)
    /\ pulled[2] = Word(0, 0, 0, 178)
    /\ DataLines(hist[HistLen - 2].g) = ByteBits(pulled[1])
    /\ DataLines(gpio) = ByteBits(pulled[2])

\* The clock rises into cycle i of the window.
RiseAt(i) == i > 1 /\ i <= Len(hist) /\ HClk(i - 1) = 0 /\ HClk(i) = 1

\* Cycles i and j of the window hold consecutive rising edges of the clock.
NextRise(i, j) ==
    /\ i < j
    /\ RiseAt(i)
    /\ RiseAt(j)
    /\ \A k \in (i + 1)..(j - 1) : ~RiseAt(k)

\* No cycle from i to j stalled: the Channel had a Word whenever one was due.
Fed(i, j) == \A k \in i..j : ~hist[k].stall

\* The instructions that occupied cycles i..j of the window.
OpsFrom(i, j) == [k \in 1..(j - i + 1) |-> hist[i + k - 1].op]

\* The cycles of i+1..j with the clock high.
HighCycles(i, j) == {k \in (i + 1)..j : HClk(k) = 1}

\* C11 as claimed: in parallel_delayed_clock consecutive rising edges with no
\* stall between them are exactly 3 cycles apart.
C11_ThreeCyclePeriod ==
    prog = "parallel_delayed_clock" =>
        \A i, j \in 1..Len(hist) : (NextRise(i, j) /\ Fed(i, j)) => j - i = 3

\* C11, amended: in parallel_delayed_clock consecutive rising edges with no
\* stall between them are exactly 4 cycles apart (the nop and its delay
\* cycle with the clock high, one wait cycle and one data-update cycle with
\* the clock low), and no two rising edges are ever nearer.
C11_FourCyclePeriod ==
    prog = "parallel_delayed_clock" =>
        \A i, j \in 1..Len(hist) :
            NextRise(i, j) =>
                /\ j - i >= 4
                /\ Fed(i, j) => /\ j - i = 4
                                /\ OpsFrom(i, j) = <<3, 3, 1, 2, 3>>

C11_Witness ==
    /\ prog = "parallel_delayed_clock"
    /\ Len(hist) = HistLen
    /\ NextRise(HistLen - 4, HistLen)
    /\ Fed(HistLen - 4, HistLen)
    /\ Len(driven) = 3

\* C12: in parallel_delayed_clock, between consecutive rising edges with no
\* stall between them the clock is high for exactly half of the cycles.
C12_HalfDuty ==
    prog = "parallel_delayed_clock" =>
        \A i, j \in 1..Len(hist) :
            (NextRise(i, j) /\ Fed(i, j)) =>
                2 * Cardinality(HighCycles(i - 1, j - 1)) = j - i

C12_Witness ==
    /\ prog = "parallel_delayed_clock"
    /\ Len(hist) = HistLen
    /\ NextRise(HistLen - 4, HistLen)
    /\ Fed(HistLen - 4, HistLen)
    /\ HighCycles(HistLen - 5, HistLen - 1) = {HistLen - 4, HistLen - 3}
    /\ Len(driven) = 4

\* C13: in parallel the clock is high exactly in the cycles of a data update
\* and low in the cycle before each, so every Word's update comes with one
\* rising edge in the same cycle, and the update puts the Word's byte on the
\* lines; consecutive rising edges with no stall between them are 2 cycles
\* apart (one wait cycle, one data and clock-high cycle).
C13_ConcurrentClock ==
    prog = "parallel" =>
        /\ \A i \in 1..Len(hist) :
              /\ DataUpdate(i) <=> HClk(i) = 1
              /\ (i > 1 /\ DataUpdate(i)) => RiseAt(i)
        /\ (hist # <<>> /\ DataUpdate(Len(hist))) =>
              /\ driven # <<>>
              /\ DataLines(gpio) = ByteBits(pulled[Len(driven)])
        /\ \A i, j \in 1..Len(hist) :
              NextRise(i, j) =>
                  /\ j - i >= 2
                  /\ Fed(i, j) => /\ j - i = 2
                                  /\ OpsFrom(i, j) = <<2, 1, 2>>

C13_Witness ==
    /\ prog = "parallel"
    /\ Len(hist) = HistLen
    /\ NextRise(HistLen - 2, HistLen)
    /\ Fed(HistLen - 2, HistLen)
    /\ Len(driven) = 3
    /\ pulled[3] = Word(0, 0, 0, 178)
    /\ pulled[2] = Word(0, 0, 0, 255)
    /\ DataLines(gpio) = ByteBits(pulled[3])

(* ------------------- shutdown (both module scripts) -------------------- *)

\* The state on entry to the script of parallel.py, after writer.active(1).
MainEntry == [gen |-> "par_main", pc |-> "put", i |-> 0]

\* The script with no sleep between put(0) and writer.active(0).
MainSleepMs_NoDrainSleep(i) == IF i < ByteValues THEN 50 ELSE 0

\* The sleep that follows a put of parallel.py's script, in ms: 50 after
\* each put(int(i)) of the loop, 10 after the final put(0).
MainSleepMs(i) == IF i < ByteValues THEN 50 ELSE 10

\* for i in range(256): writer.put(int(i)); time.sleep_ms(50), and after the
\* pause writer.put(0); time.sleep_ms(10).
MainPut ==
    /\ prod.gen = "par_main"
    /\ prod.pc = "put"
    /\ PutWord(IF prod.i < ByteValues THEN Word(0, 0, 0, prod.i) ELSE Off)
    /\ prod' = [prod EXCEPT !.pc = IF prod.i < ByteValues THEN "sleep" ELSE "drain"]
    /\ sleep' = SleepCycles(MsToCycles(MainSleepMs(prod.i), ParFreqKHz))
    /\ LastPutFrame

\* time.sleep_ms(50) returns: the next i, or time.sleep_ms(1000) after the
\* last; time.sleep_ms(1000) returns: on to put(0).
MainWake ==
    /\ prod.gen = "par_main"
    /\ prod.pc \in {"sleep", "pause"}
    /\ sleep = 0
    /\ IF prod.pc = "sleep" /\ prod.i + 1 = ByteValues
       THEN /\ prod' = [prod EXCEPT !.i = prod.i + 1, !.pc = "pause"]
            /\ sleep' = SleepCycles(MsToCycles(1000, ParFreqKHz))
       ELSE /\ prod' = [prod EXCEPT !.i = IF prod.pc = "sleep" THEN prod.i + 1
                                          ELSE prod.i,
                                    !.pc = "put"]
            /\ UNCHANGED sleep
    /\ CodeFrame

\* time.sleep_ms(10) returns; writer.active(0)
MainStop ==
    /\ prod.gen = "par_main"
    /\ prod.pc = "drain"
    /\ sleep = 0
    /\ active' = FALSE
    /\ prod' = [prod EXCEPT !.pc = "done"]
    /\ UNCHANGED <<prog, pc, delay, osr, osrCount, fifo, gpio, obsVars, nEnq,
                   logVars, waiting, sleep, lowRun>>

\* The last loop of neopixel.py on its idle writer, or the script of
\* parallel.py on its writer.
InitShutdown ==
    \/ /\ InitMachine("neopixel_write")
       /\ prod = Run(AllOffEntry, FALSE)
    \/ /\ InitMachine("parallel")
       /\ prod = Run(MainEntry, TRUE)

NextShutdown ==
    \/ Clock
    \/ Retry
    \/ AllOffPut
    \/ MainPut
    \/ MainWake
    \/ MainStop

\* The state machine's clock runs on and the Python code runs on.
SpecShutdown ==
    /\ InitShutdown
    /\ [][NextShutdown]_vars
    /\ WF_vars(Clock)
    /\ WF_vars(AllOffPut)
    /\ WF_vars(MainPut)
    /\ WF_vars(MainWake)
    /\ WF_vars(MainStop)

\* Every pin the program drives is low.
AllLow == \A p \in DOMAIN gpio : gpio[p] = 0

\* The Channel is empty, the Encoder stalled at its pull, every output low.
Drained ==
    /\ fifo = <<>>
    /\ stalled
    /\ lastOp = 1
    /\ pc = 1
    /\ AllLow

\* C14: each script, whose last Words are zeros, ends with nothing left to
\* put, and from some point on the Channel is empty, the Encoder is stalled
\* at its pull and every output is low, for good; in parallel.py that state
\* has been reached whenever the state machine is off, that is when
\* writer.active(0) runs after the 10 ms sleep.
C14_ShutdownIdle ==
    /\ <>[](prod.pc = "done" /\ Drained)
    /\ [](~active => (prod.pc = "done" /\ Drained))
    /\ []((prod.gen = "par_main" /\ prod.pc = "done") => ~active)

C14_Witness ==
    /\ prog = "parallel"
    /\ ~active
    /\ Drained
    /\ nEnq = ByteValues + 1
    /\ nPulled = ByteValues + 1

(* ------------------------------ color_wheel ---------------------------- *)

\* The arguments color_wheel is called with: any offset in or near 0..44,
\* any brightness of a byte.
WheelOffsets == (0 - OffsetMargin)..(WheelSize - 1 + OffsetMargin)
Brightnesses == 0..(ByteValues - 1)

\* Python code about to call color_wheel(offset, brightness) and to put
\* what it returns.
InitWheel ==
    /\ InitMachine("neopixel_write")
    /\ \E o \in WheelOffsets, b \in Brightnesses :
          prod = [gen |-> "wheel", pc |-> "call", timed |-> TRUE,
                  offset |-> o, brightness |-> b, raised |-> FALSE,
                  channels |-> [green |-> 0, red |-> 0, blue |-> 0],
                  word |-> Off]

\* color = color_wheel(offset, brightness): the function computes its
\* channels and returns the packed value, whatever the offset.
WheelCall ==
    /\ prod.gen = "wheel"
    /\ prod.pc = "call"
    /\ prod' = [prod EXCEPT !.pc = "put",
                            !.raised = FALSE,
                            !.channels = color_channels(prod.offset, prod.brightness),
                            !.word = color_wheel(prod.offset, prod.brightness)]
    /\ UNCHANGED <<smVars, obsVars, nEnq, logVars, waiting, sleep, lowRun>>

\* writer.put(color)
WheelPut ==
    /\ prod.gen = "wheel"
    /\ prod.pc = "put"
    /\ PutWord(prod.word)
    /\ prod' = [prod EXCEPT !.pc = "done"]
    /\ PutFrame

\* The one put finds the FIFO of the idle writer empty: it never retries.
NextWheel ==
    \/ WheelCall
    \/ WheelPut

SpecWheel == InitWheel /\ [][NextWheel]_vars

\* color_wheel has returned.
Returned == prod.pc \in {"put", "done"}

\* The offsets color_wheel is written for.
InWheel(o) == o \in 0..(WheelSize - 1)

\* C15: for every brightness B of 0..255 and offset of 0..44 the channels
\* color_wheel computes add up to B in the two channels of the offset's
\* segment (green-red, red-blue, blue-green) with the third 0, each channel
\* lies in 0..B, and the returned Word is green, red, blue in its three
\* upper bytes with its low 8 bits zero.
C15_WheelChannels ==
    (Returned /\ InWheel(prod.offset)) =>
        LET c == prod.channels
            B == prod.brightness
            o == prod.offset
        IN  /\ o \in 0..14 => (c.red + c.green = B /\ c.blue = 0)
            /\ o \in 15..29 => (c.red + c.blue = B /\ c.green = 0)
            /\ o \in 30..44 => (c.green + c.blue = B /\ c.red = 0)
            /\ c.red \in 0..B
            /\ c.green \in 0..B
            /\ c.blue \in 0..B
            /\ prod.word = Word(c.green, c.red, c.blue, 0)
            /\ \A k \in 0..7 : WordBit(prod.word, k) = 0

C15_Witness ==
    /\ prod.gen = "wheel"
    /\ prod.pc = "done"
    /\ prod.offset = 22
    /\ prod.brightness = 255
    /\ prod.channels = [green |-> 0, red |-> 128, blue |-> 127]
    /\ fifo = <<Word(0, 128, 127, 0)>>

\* C16: a call of color_wheel with an offset outside 0..44 raises, and no
\* Word comes of it into the Channel.
C16_RejectsOutOfRange ==
    (Returned /\ ~InWheel(prod.offset)) =>
        /\ prod.raised
        /\ nEnq = 0
        /\ fifo = <<>>

(* ------------------- whole runs of the frame generators ---------------- *)

\* The Python code cannot go on at once: its put waits for room, it sleeps,
\* its poll still sees Words, or it has ended.
PythonWaits ==
    \/ waiting /\ Len(fifo) = FifoDepth
    \/ sleep > 0
    \/ prod.pc = "sleep" /\ ~prod.timed /\ ~Drained
    \/ prod.pc = "poll" /\ fifo # <<>>
    \/ prod.pc = "done"

\* A clock cycle of a run in which the Python code is fast: it takes its
\* next step before the next cycle whenever it can.
BusyClock == Clock /\ PythonWaits

\* single_chase(color, reverse), followed through all of its Frames.
InitChaseWhole ==
    /\ InitMachine("neopixel_write")
    /\ \E call \in ChaseCalls : prod = Whole(Run(ChaseEntry(call[1], call[2]), TRUE))

NextChaseWhole ==
    \/ BusyClock
    \/ Retry
    \/ ChasePut
    \/ ChasePoll
    \/ ChaseWake

SpecChaseWhole == InitChaseWhole /\ [][NextChaseWhole]_vars

\* The Word at position n % NUM_LEDS of Frame n \div NUM_LEDS of a single
\* chase: the colour where the Frame's pixel is lit, 0 elsewhere.
ChaseWordAt(n, color, reverse) ==
    LET k == n \div NUM_LEDS
        pos == n % NUM_LEDS
    IN  IF pos = (IF reverse THEN NUM_LEDS - 1 - k ELSE k) THEN color ELSE Off

\* C17: single_chase(color, reverse) puts, as its n-th Word, color if n is
\* position k (forward) or NUM_LEDS-1-k (reverse) of Frame k, else 0; its
\* Frames are NUM_LEDS Words each, and it ends after exactly NUM_LEDS Frames.
C17_SingleChaseFrames ==
    /\ [][nEnq' = nEnq + 1 =>
            fifo' = Append(fifo, ChaseWordAt(nEnq, prod.color, prod.reverse))]_vars
    /\ [](/\ prod.sent <= NUM_LEDS
          /\ nEnq = NUM_LEDS * prod.frames + prod.sent
          /\ prod.frames <= NUM_LEDS
          /\ prod.pc \in {"poll", "sleep"} =>
                (IF prod.pc = "sleep" THEN prod.last ELSE prod.sent) = NUM_LEDS)
    /\ [](prod.pc = "done" => /\ prod.frames = NUM_LEDS
                              /\ nEnq = NUM_LEDS * NUM_LEDS)

\* In the second Frame of a reverse chase the colour has just been put at
\* position NUM_LEDS - 2, after NUM_LEDS - 2 zeros.
C17_Witness ==
    /\ prod.gen = "single_chase"
    /\ "whole" \in DOMAIN prod
    /\ prod.reverse
    /\ prod.frames = 1
    /\ prod.k = 1
    /\ prod.i = NUM_LEDS - 1
    /\ fifo # <<>>
    /\ fifo[Len(fifo)] = prod.color
    /\ nEnq = 2 * NUM_LEDS - 1

\* time.sleep_ms(100) returns: its 480000 cycles have outlasted the 1296 in
\* which the encoder drains a full FIFO and a Word in its shift register.
SlideWakeDrained == SlideWake /\ Drained

\* sliding_rainbow(colors, times), followed through all of its Frames.
InitSlideWhole ==
    /\ InitMachine("neopixel_write")
    /\ prod = Whole(Run(SlideEntry(colors, MaxTimes), FALSE))

NextSlideWhole ==
    \/ BusyClock
    \/ Retry
    \/ SlidePut
    \/ SlideWakeDrained

SpecSlideWhole == InitSlideWhole /\ [][NextSlideWhole]_vars

\* The palette rotated left by n places.
Rotated(palette, n) ==
    [i \in 1..Len(palette) |-> palette[((i - 1 + n) % Len(palette)) + 1]]

\* C18: sliding_rainbow puts, at position j of its n-th Frame, the Word
\* palette[(j + n) mod L]; as a Frame begins its palette is the original one
\* rotated left by the number of Frames put, which is the original palette
\* again after every L Frames; it ends after NUM_LEDS * times Frames.
C18_SlidingRotation ==
    /\ [][nEnq' = nEnq + 1 =>
            LET L == Len(colors)
                n == nEnq \div L
                j == nEnq % L
            IN  fifo' = Append(fifo, colors[((j + n) % L) + 1])]_vars
    /\ [](/\ nEnq = Len(colors) * prod.frames + prod.sent
          /\ (prod.pc = "put") => (prod.j = prod.sent)
          /\ (prod.j = 0) =>
                /\ prod.colors = Rotated(colors, prod.frames)
                /\ (prod.frames % Len(colors) = 0) => (prod.colors = colors))
    /\ [](prod.pc = "done" => prod.frames = NUM_LEDS * MaxTimes)

\* The fourth Word of the second Frame has just been put.
C18_Witness ==
    /\ prod.gen = "sliding_rainbow"
    /\ "whole" \in DOMAIN prod
    /\ prod.frames = 1
    /\ prod.j = 4
    /\ prod.colors # colors
    /\ fifo # <<>>
    /\ fifo[Len(fifo)] = colors[5]
    /\ colors[5] # colors[4]
    /\ nEnq = Len(colors) + 4

\* The drain poll of single_chase exits: time.sleep_us(50) begins.
PollExits == prod.gen = "single_chase" /\ prod.pc = "poll" /\ prod'.pc = "sleep"

\* C19: when the drain poll of single_chase exits, every Word of the Frame
\* has been pulled and all 24 bits of the last one shifted out, the Encoder
\* is stalled at its Wait step and the output is low.
C19_DrainedAtPollExit ==
    [][PollExits => /\ fifo = <<>>
                    /\ nPulled = nEnq
                    /\ osrCount >= PayloadBits
                    /\ stalled
                    /\ AtWait
                    /\ Level = 0]_vars

(* --------------- rainbow_chaser and rainbow_wave, timed ---------------- *)

\* rainbow_chaser(colors) and rainbow_wave(colors) on a fresh writer, their
\* sleeps counted cycle by cycle.
InitSweepTimed ==
    /\ InitMachine("neopixel_write")
    /\ \E gen \in {"rainbow_chaser", "rainbow_wave"} :
          prod = Run(SweepEntry(gen, 10), TRUE)

NextSweepTimed ==
    \/ Clock
    \/ Retry
    \/ ChaserPut
    \/ ChaserWake
    \/ WavePut
    \/ WaveWake

SpecSweepTimed == InitSweepTimed /\ [][NextSweepTimed]_vars

\* Every Word put so far has been pulled and shifted out to its last bit;
\* the Encoder is stalled at its Wait step with the output low.
FrameOut ==
    /\ fifo = <<>>
    /\ nPulled = nEnq
    /\ osrCount >= PayloadBits
    /\ stalled
    /\ AtWait
    /\ Level = 0

\* The first Word of a Frame after the first is put.
NextFramePut == nEnq' = nEnq + 1 /\ prod.sent = 0 /\ prod.frames > 0

\* C20: in rainbow_chaser and rainbow_wave the Frame is out, to its last
\* bit, and the output low throughout the last 240 cycles (50 us) of the
\* 2400-cycle sleep and from then on until the first Word of the next Frame
\* is put.
C20_SweepGap ==
    /\ []((prod.pc = "sleep" /\ sleep <= LatchCycles) => FrameOut)
    /\ []((prod.pc = "put" /\ prod.sent = 0 /\ prod.frames > 0) => FrameOut)
    /\ [][NextFramePut => FrameOut]_vars

C20_Witness ==
    /\ prod.gen = "rainbow_wave"
    /\ prod.timed
    /\ prod.frames = 1
    /\ prod.pc = "put"
    /\ prod.sent = 1
    /\ fifo = <<WaveWord([prod EXCEPT !.j = 0])>>
    /\ nPulled = NUM_LEDS
    /\ Level = 0

====
